---- MODULE Spec2Model ----
(***************************************************************************)
(* A model of examples.py of krdict.py: the pagination example (Example 1) *)
(* with the driver that runs the examples and handles their exceptions,    *)
(* and the console formatter (_display_results, _display_view_results).    *)
(*                                                                         *)
(* Two specifications:                                                     *)
(*   Spec     the driver; pagination() is modelled statement by statement, *)
(*            against a dictionary service that answers each page request, *)
(*            fails it, or is cancelled while the request is awaited.      *)
(*   SpecFmt  the formatter, a pure function of the response, applied to   *)
(*            every response of a bounded family.                          *)
(* Strings that are printed are kept as sequences of tokens (the pieces    *)
(* the f-strings concatenate), so that the structure of a line can be      *)
(* inspected.                                                              *)
(***************************************************************************)
EXTENDS Integers, Sequences, FiniteSets, TLC

VARIABLES
    \* ---- driver (__main__, _run_examples)
    pc,             \* where control is
    frame,          \* the frame an exception is unwinding through
    idx,            \* index into _EXAMPLE_FUNCS of the example being run
    exc,            \* the exception in flight (NoExc when none)
    exitStatus,     \* the process's exit status once pc = "exited"
    stderr,         \* what the interpreter wrote to stderr on exit
    \* ---- locals of pagination()
    page, results, has_next, total_results, data,
    console,        \* the arguments of pagination()'s print calls, in order
    \* ---- the dictionary service and the requests in flight
    service,        \* what the service holds and how it pages
    pending,        \* the page numbers whose fetch is outstanding
    reqLog,         \* every krdict.search call made, in order
    pageLog,        \* every response received, in order
    failed,         \* the fetch that raised or was cancelled, and with what
    \* ---- formatter
    response,       \* the response handed to _display_results
    stdout,         \* the lines _display_results printed
    renderer,       \* the renderer _display_results used
    fault,          \* the error a missing field raised while rendering
    fpc             \* "ready" before the call, "printed" after

vars == <<pc, frame, idx, exc, exitStatus, stderr,
          page, results, has_next, total_results, data, console,
          service, pending, reqLog, pageLog, failed,
          response, stdout, renderer, fault, fpc>>

driverVars == <<pc, frame, idx, exc, exitStatus, stderr>>
localVars  == <<page, results, has_next, total_results, data, console>>
netVars    == <<service, pending, reqLog, pageLog, failed>>
fmtVars    == <<response, stdout, renderer, fault, fpc>>

(***************************************************************************)
(* Bounds of the model.                                                    *)
(***************************************************************************)
MaxTotal      == 45   \* the service holds 0..MaxTotal matching entries
SmallPerPage  == 10   \* page size of a service that ignores the requested one
MaxFetches    == 6    \* no more than this many krdict.search calls are made
MaxPron       == 3    \* pronunciation entries of a view response
MaxExamples   == 7    \* examples of a definition
MaxMedia      == 7    \* multimedia references of a definition
MaxResults    == 2    \* results of a list response

(***************************************************************************)
(* Program constants.                                                      *)
(***************************************************************************)
PerPage       == 20   \* per_page=20 in the krdict.search call
TruncateAt    == 5    \* "if i == 5" in the example and multimedia loops
NumExamples   == 12   \* len(_EXAMPLE_FUNCS)

NoExc  == [type |-> "none", msg |-> ""]
NoFailure == [fetch |-> 0, exc |-> NoExc]
NoData == [total_results |-> 0, page |-> 0, per_page |-> 0, results |-> << >>]

Min(a, b) == IF a < b THEN a ELSE b
Max(a, b) == IF a > b THEN a ELSE b
CeilDiv(a, b) == (a + b - 1) \div b

\* the integers a..b as a sequence (empty when b < a)
Range(a, b) == [i \in 1..Max(b - a + 1, 0) |-> a + i - 1]

RECURSIVE Flatten(_)
Flatten(ss) == IF ss = << >> THEN << >> ELSE Head(ss) \o Flatten(Tail(ss))

(***************************************************************************)
(* The dictionary service behind krdict.search.  It holds service.total    *)
(* entries, numbered 1..total in the order an unpaged query returns them.  *)
(* mode "honour": pages of the requested size; "fixed": pages of its own   *)
(* size service.per_page whatever is requested; "stuck": ignores the page  *)
(* number and answers every request with its first page.  A response       *)
(* carries the page and page size the service used.                        *)
(***************************************************************************)
ServiceModes == {"honour", "fixed", "stuck"}

Services ==
    { [total |-> t, per_page |-> pp, mode |-> m] :
        t \in 0..MaxTotal, pp \in {PerPage, SmallPerPage}, m \in ServiceModes }

ServedPerPage(svc, req) ==
    IF svc.mode = "honour" THEN req.per_page ELSE svc.per_page

ServedPage(svc, req) ==
    IF svc.mode = "stuck" THEN 1 ELSE req.page

\* the entries of page p when the pages hold pp entries
PageSlice(total, p, pp) == Range((p - 1) * pp + 1, Min(p * pp, total))

SearchResponse(svc, req) ==
    LET pp == ServedPerPage(svc, req)
        p  == ServedPage(svc, req)
    IN  [total_results |-> svc.total, page |-> p, per_page |-> pp,
         results |-> PageSlice(svc.total, p, pp)]

ErrorMessages == {"020: Unregistered key", "011: Incorrect request"}

(***************************************************************************)
(* pagination(), lines 96-118.                                             *)
(***************************************************************************)
\* a variant of HasNext that goes on when the last page is exactly full
HasNextInclusive(d, total) == d.per_page * d.page <= total

\* a variant of HasNext that uses the page size asked for, not the one answered
HasNextRequestedSize(d, total) == PerPage * d.page < total

\* line 113: has_next = data.per_page * data.page < total_results
HasNext(d, total) == d.per_page * d.page < total

\* a variant of NextPage that skips a page
NextPageSkips(p) == p + 2

\* line 111: page += 1
NextPage(p) == p + 1

\* a variant of Collect that puts the new page in front
CollectInFront(rs, d) == d.results \o rs

\* line 112: results += data.results
Collect(rs, d) == rs \o d.results

\* line 107: the arguments of the krdict.search call
SearchRequest(p) == [query |-> "namu", page |-> p, per_page |-> PerPage]

\* a variant of PaginationCatches: the loop catches the error and goes on
PaginationRetries == {"KRDictException"}

\* lines 106-113: the exception types a try statement of pagination() catches
PaginationCatches == {}

\* lines 374-379: the exception types a try statement of _run_examples() catches
RunExamplesCatches == {}

\* lines 101-104, entered from line 378 with idx = 0
CallPagination ==
    /\ pc = "driver" /\ idx = 0
    /\ page' = 1
    /\ results' = << >>
    /\ has_next' = TRUE
    /\ total_results' = 0
    /\ pc' = "loop"
    /\ frame' = "pagination"
    /\ UNCHANGED <<idx, exc, exitStatus, stderr, data, console, netVars, fmtVars>>

\* lines 106-107: the loop test and the call of krdict.search, up to the await
Request ==
    /\ pc = "loop" /\ has_next
    /\ Len(reqLog) < MaxFetches
    /\ reqLog' = Append(reqLog, SearchRequest(page))
    /\ pending' = pending \cup {page}
    /\ pc' = "await"
    /\ UNCHANGED <<frame, idx, exc, exitStatus, stderr, localVars,
                   service, pageLog, failed, fmtVars>>

\* lines 107-116: the await yields a response; the rest of the loop body
\* runs without another suspension point
Respond ==
    /\ pc = "await"
    /\ LET resp == SearchResponse(service, reqLog[Len(reqLog)])
           total == resp.total_results
           hn == HasNext(resp, total)
       IN  /\ data' = resp
           /\ total_results' = total
           /\ page' = NextPage(page)
           /\ results' = Collect(results, resp)
           /\ has_next' = hn
           /\ console' = Append(console,
                  [collected |-> Len(resp.results), page |-> NextPage(page) - 1,
                   next |-> hn])
           /\ pageLog' = Append(pageLog, resp)
    /\ pending' = pending \ {reqLog[Len(reqLog)].page}
    /\ pc' = "loop"
    /\ UNCHANGED <<frame, idx, exc, exitStatus, stderr, service, reqLog,
                   failed, fmtVars>>

\* line 107 with raise_api_errors=True: the await raises a KRDictException
FetchFails ==
    /\ pc = "await"
    /\ \E m \in ErrorMessages : exc' = [type |-> "KRDictException", msg |-> m]
    /\ pending' = pending \ {reqLog[Len(reqLog)].page}
    /\ failed' = [fetch |-> Len(reqLog), exc |-> exc']
    /\ pc' = "unwinding"
    /\ UNCHANGED <<frame, idx, exitStatus, stderr, localVars,
                   service, reqLog, pageLog, fmtVars>>

\* a variant of Cancel in which the entries received so far are kept
CancelCommitsPartial ==
    /\ pc = "await"
    /\ exc' = [type |-> "CancelledError", msg |-> ""]
    /\ pending' = pending \ {reqLog[Len(reqLog)].page}
    /\ failed' = [fetch |-> Len(reqLog), exc |-> exc']
    /\ pc' = "unwinding"
    /\ LET arriving == SearchResponse(service, reqLog[Len(reqLog)]).results
       IN  results' = results \o SubSeq(arriving, 1, Min(1, Len(arriving)))
    /\ UNCHANGED <<frame, idx, exitStatus, stderr, page, has_next,
                   total_results, data, console,
                   service, reqLog, pageLog, fmtVars>>

\* line 107: the task is cancelled while the fetch is awaited (the await is
\* the only suspension point of pagination())
Cancel ==
    /\ pc = "await"
    /\ exc' = [type |-> "CancelledError", msg |-> ""]
    /\ pending' = pending \ {reqLog[Len(reqLog)].page}
    /\ failed' = [fetch |-> Len(reqLog), exc |-> exc']
    /\ pc' = "unwinding"
    /\ UNCHANGED <<frame, idx, exitStatus, stderr, localVars,
                   service, reqLog, pageLog, fmtVars>>

\* lines 106, 118: the loop test fails; the summary is printed; return
Finish ==
    /\ pc = "loop" /\ ~has_next
    /\ console' = Append(console,
           [collected |-> Len(results), total |-> total_results])
    /\ pc' = "driver"
    /\ frame' = "_run_examples"
    /\ idx' = idx + 1
    /\ UNCHANGED <<exc, exitStatus, stderr, page, results, has_next,
                   total_results, data, netVars, fmtVars>>

(***************************************************************************)
(* The driver, lines 355-388.                                              *)
(***************************************************************************)
\* lines 5-9: the names the module's import statements bind
ImportedNames == {"reduce", "os", "sys", "asyncio", "krdict"}

\* line 387: the names the except clause's expression looks up
ExceptClauseNames == {"krdict", "requests"}

\* line 387: the exception types the clause names
ExceptClauseTypes == {"KRDictException", "RequestException"}

Traceback(e) == <<"Traceback (most recent call last):", e.type, e.msg>>

\* lines 385-388: what the process does with an exception that reaches the
\* try statement.  The except clause's expression is evaluated first; a name
\* that is not bound raises NameError, which nothing catches.
MainExcept(e) ==
    IF ~(ExceptClauseNames \subseteq ImportedNames)
    THEN [status |-> 1,
          stderr |-> Traceback(e)
                     \o <<"During handling of the above exception, another exception occurred:">>
                     \o Traceback([type |-> "NameError",
                                   msg |-> "name 'requests' is not defined"])]
    ELSE IF e.type \in ExceptClauseTypes
    THEN [status |-> 1, stderr |-> <<e.msg>>]      \* sys.exit(str(exc))
    ELSE [status |-> 1, stderr |-> Traceback(e)]

\* line 386: asyncio.run(_run_examples())
Start ==
    /\ pc = "main"
    /\ pc' = "driver"
    /\ frame' = "_run_examples"
    /\ UNCHANGED <<idx, exc, exitStatus, stderr, localVars, netVars, fmtVars>>

\* lines 374-379 for examples 2..12: the example returns, or one of its
\* library calls raises
RunExample ==
    /\ pc = "driver" /\ idx \in 1..(NumExamples - 1)
    /\ \/ /\ idx' = idx + 1
          /\ UNCHANGED <<pc, exc>>
       \/ /\ \E m \in ErrorMessages : exc' = [type |-> "KRDictException", msg |-> m]
          /\ pc' = "unwinding"
          /\ UNCHANGED idx
    /\ UNCHANGED <<frame, exitStatus, stderr, localVars, netVars, fmtVars>>

\* lines 381, 386: the loop is over; asyncio.run returns; the script ends
DriverDone ==
    /\ pc = "driver" /\ idx = NumExamples
    /\ pc' = "exited"
    /\ frame' = "__main__"
    /\ exitStatus' = 0
    /\ UNCHANGED <<idx, exc, stderr, localVars, netVars, fmtVars>>

\* an exception leaves pagination(): it has no try statement
UnwindPagination ==
    /\ pc = "unwinding" /\ frame = "pagination"
    /\ IF exc.type \in PaginationCatches
       THEN /\ pc' = "loop"
            /\ exc' = NoExc
            /\ UNCHANGED frame
       ELSE /\ frame' = "_run_examples"
            /\ UNCHANGED <<pc, exc>>
    /\ UNCHANGED <<idx, exitStatus, stderr, localVars, netVars, fmtVars>>

\* an exception leaves _run_examples() and asyncio.run
UnwindRunExamples ==
    /\ pc = "unwinding" /\ frame = "_run_examples"
    /\ IF exc.type \in RunExamplesCatches
       THEN /\ pc' = "driver"
            /\ idx' = idx + 1
            /\ exc' = NoExc
            /\ UNCHANGED frame
       ELSE /\ frame' = "__main__"
            /\ UNCHANGED <<pc, idx, exc>>
    /\ UNCHANGED <<exitStatus, stderr, localVars, netVars, fmtVars>>

\* lines 385-388: the exception reaches the try statement of __main__
HandleInMain ==
    /\ pc = "unwinding" /\ frame = "__main__"
    /\ exitStatus' = MainExcept(exc).status
    /\ stderr' = MainExcept(exc).stderr
    /\ pc' = "exited"
    /\ UNCHANGED <<frame, idx, exc, localVars, netVars, fmtVars>>

FmtIdle ==
    /\ response = [response_type |-> "none"]
    /\ stdout = << >>
    /\ renderer = "none"
    /\ fault = "none"
    /\ fpc = "idle"

Init ==
    /\ pc = "main" /\ frame = "__main__" /\ idx = 0
    /\ exc = NoExc /\ exitStatus = -1 /\ stderr = << >>
    /\ page = 0 /\ results = << >> /\ has_next = FALSE /\ total_results = 0
    /\ data = NoData /\ console = << >>
    /\ service \in Services
    /\ pending = {} /\ reqLog = << >> /\ pageLog = << >> /\ failed = NoFailure
    /\ FmtIdle

Next ==
    \/ Start
    \/ CallPagination
    \/ Request
    \/ Respond
    \/ FetchFails
    \/ Cancel
    \/ Finish
    \/ RunExample
    \/ DriverDone
    \/ UnwindPagination
    \/ UnwindRunExamples
    \/ HandleInMain

Spec == Init /\ [][Next]_vars


(***************************************************************************)
(* The formatter, lines 20-92.  A printed line is the sequence of the      *)
(* pieces its f-string concatenates; stdout is the sequence of print       *)
(* calls.  A field that may be absent ('url' in obj) is a field the record *)
(* may lack.  The brackets around the part of speech are written [[ ]],    *)
(* the bullets of example and multimedia lines * and >.                    *)
(***************************************************************************)
Has(obj, field) == field \in DOMAIN obj

RECURSIVE JoinWith(_, _)
\* sep.join(items), items being token sequences
JoinWith(sep, items) ==
    IF items = << >> THEN << >>
    ELSE IF Len(items) = 1 THEN Head(items)
    ELSE Head(items) \o <<sep>> \o JoinWith(sep, Tail(items))

\* a variant of PronunciationStep that puts the slash after each entry
PronunciationStepTrailing(acc, obj) ==
    LET a1 == Append(acc, <<obj.pronunciation>>)
        a2 == IF Has(obj, "url") THEN Append(a1, <<" (", obj.url, ")">>) ELSE a1
    IN  Append(a2, <<"/">>)

\* lines 29-34: the body of the loop over pronunciation_info
PronunciationStep(acc, obj) ==
    LET a0 == IF acc # << >> THEN Append(acc, <<"/">>) ELSE acc
        a1 == Append(a0, <<obj.pronunciation>>)
    IN  IF Has(obj, "url") THEN Append(a1, <<" (", obj.url, ")">>) ELSE a1

RECURSIVE PronunciationLoop(_, _)
\* lines 27-34: the list `pronunciation`
PronunciationLoop(acc, infos) ==
    IF infos = << >> THEN acc
    ELSE PronunciationLoop(PronunciationStep(acc, Head(infos)), Tail(infos))

RECURSIVE OriginOf(_)
\* lines 24-25: reduce(lambda x, y: x + y.original_language, info, '')
OriginOf(infos) ==
    IF infos = << >> THEN << >>
    ELSE (IF Head(infos).original_language = "" THEN << >>
          ELSE <<Head(infos).original_language>>) \o OriginOf(Tail(infos))

\* lines 36-40: the header line
HeaderLine(word_info) ==
    LET origin == OriginOf(word_info.original_language_info)
        pronunciation == PronunciationLoop(<< >>, word_info.pronunciation_info)
    IN  <<word_info.word>>
        \o <<" [[", word_info.part_of_speech, "]]">>
        \o (IF origin # << >> THEN <<" (">> \o origin \o <<")">> ELSE << >>)
        \o (IF pronunciation # << >>
            THEN <<" [">> \o Flatten(pronunciation) \o <<"]">> ELSE << >>)

\* lines 45-54: the numbered line of a definition
DefinitionLine(i, dfn) ==
    LET translation == dfn.translations[1]
        lines ==
            IF dfn.translations # << >>
            THEN (IF Has(translation, "word") THEN <<translation.word>> ELSE << >>)
                 \o <<"\n   ", dfn.definition>>
                 \o <<"\n   ", translation.definition>>
            ELSE <<dfn.definition>>
    IN  <<ToString(i + 1), ". ">> \o lines

ExampleMarker == <<"   * ...">>
MediaMarker   == <<"   > ...">>

RECURSIVE ExampleLoopLate(_, _)
\* a variant of ExampleLoop that tests the index one item too late
ExampleLoopLate(example_info, i) ==
    IF i >= Len(example_info) THEN << >>
    ELSE IF i = TruncateAt + 1 THEN <<ExampleMarker>>
    ELSE <<(<<"   * ", example_info[i + 1].example>>)>>
         \o ExampleLoopLate(example_info, i + 1)

RECURSIVE ExampleLoop(_, _)
\* lines 56-60: the loop over example_info from index i on
ExampleLoop(example_info, i) ==
    IF i >= Len(example_info) THEN << >>
    ELSE IF i = TruncateAt THEN <<ExampleMarker>>
    ELSE <<(<<"   * ", example_info[i + 1].example>>)>>
         \o ExampleLoop(example_info, i + 1)

\* lines 68-71: the line of one multimedia reference
MediaLine(multimedia) ==
    IF Has(multimedia, "content_urls") /\ multimedia.content_urls # << >>
    THEN <<"   > ">>
         \o JoinWith(",", [k \in 1..Len(multimedia.content_urls) |->
                             <<multimedia.content_urls[k]>>])
         \o <<" (", multimedia.type, ")">>
    ELSE <<"   > ", multimedia.url, " (", multimedia.type, ")">>

RECURSIVE MediaLoop(_, _)
\* lines 62-71: the loop over multimedia_info from index i on
MediaLoop(multimedia_info, i) ==
    IF i >= Len(multimedia_info) THEN << >>
    ELSE IF i = TruncateAt THEN <<MediaMarker>>
    ELSE <<MediaLine(multimedia_info[i + 1])>> \o MediaLoop(multimedia_info, i + 1)

RECURSIVE DefinitionLoop(_, _)
\* lines 44-71: the loop over definition_info from index i on
DefinitionLoop(definition_info, i) ==
    IF i >= Len(definition_info) THEN << >>
    ELSE LET dfn == definition_info[i + 1]
         IN  <<DefinitionLine(i, dfn)>>
             \o ExampleLoop(dfn.example_info, 0)
             \o MediaLoop(dfn.multimedia_info, 0)
             \o DefinitionLoop(definition_info, i + 1)

\* lines 20-71: _display_view_results.  A response whose data has no results
\* or whose result has no word_info raises at line 22 or 24.
DisplayViewResults(resp) ==
    IF ~Has(resp.data, "results") \/ resp.data.results = << >>
    THEN [renderer |-> "detail", lines |-> << >>, fault |-> "IndexError"]
    ELSE IF ~Has(resp.data.results[1], "word_info")
    THEN [renderer |-> "detail", lines |-> << >>, fault |-> "AttributeError"]
    ELSE LET word_info == resp.data.results[1].word_info
         IN  [renderer |-> "detail",
              lines |-> <<HeaderLine(word_info), <<resp.data.url>> >>
                        \o DefinitionLoop(word_info.definition_info, 0),
              fault |-> "none"]

\* lines 82-89: the numbered line of a result of a list response
ResultLine(resp, i, result) ==
    LET first_dfn == IF resp.class = "DefinitionResponse"
                     THEN result.definition_info
                     ELSE result.definitions[1]
        origin_info == IF Has(result, "origin") /\ result.origin # ""
                       THEN <<" (", result.origin, ")">> ELSE << >>
    IN  <<ToString(i + 1), ". ", result.word>> \o origin_info
        \o <<": ", first_dfn.definition>>

\* lines 91-92: the translation lines under a result
TranslationLines(resp, result) ==
    LET first_dfn == IF resp.class = "DefinitionResponse"
                     THEN result.definition_info
                     ELSE result.definitions[1]
    IN  [k \in 1..Len(first_dfn.translations) |->
            <<"   ", first_dfn.translations[k].word, ": ",
              first_dfn.translations[k].definition>>]

RECURSIVE ResultLoop(_, _)
\* lines 81-92: the loop over data.results from index i on
ResultLoop(resp, i) ==
    IF i >= Len(resp.data.results) THEN << >>
    ELSE <<ResultLine(resp, i, resp.data.results[i + 1])>>
         \o TranslationLines(resp, resp.data.results[i + 1])
         \o ResultLoop(resp, i + 1)

\* lines 78-92: the list renderer.  A response whose data has no
\* total_results raises at line 79, before anything is printed.
DisplayListResults(resp) ==
    IF ~Has(resp.data, "total_results")
    THEN [renderer |-> "list", lines |-> << >>, fault |-> "AttributeError"]
    ELSE [renderer |-> "list",
          lines |-> <<(<<"Total Results: ", ToString(resp.data.total_results)>>)>>
                    \o ResultLoop(resp, 0),
          fault |-> "none"]

\* a variant of ViewTags that leaves the scraped variant out
ViewTagsWithoutScraped == {"view"}

\* line 74: the response types the detail renderer is used for
ViewTags == {"view", "scraped_view"}

\* lines 73-92: _display_results
DisplayResults(resp) ==
    IF resp.response_type \in ViewTags
    THEN DisplayViewResults(resp)
    ELSE DisplayListResults(resp)

(***************************************************************************)
(* The responses the formatter is applied to.                              *)
(***************************************************************************)
ExampleInfo(n) == [i \in 1..n |-> [example |-> "example " \o ToString(i)]]

\* references of a response of the API carry a url; those of a scraped
\* response fetched with fetch_multimedia carry content_urls, which are empty
\* for every third reference
MultimediaInfo(tag, m) ==
    [i \in 1..m |->
        IF tag = "scraped_view"
        THEN [type |-> "photo", url |-> "https://krdict/m/" \o ToString(i),
              content_urls |->
                  IF i % 3 = 0 THEN << >>
                  ELSE [k \in 1..(1 + (i % 2)) |->
                          "https://media/" \o ToString(i) \o "/" \o ToString(k)]]
        ELSE [type |-> "photo", url |-> "https://krdict/m/" \o ToString(i)]]

\* the response types of the single-entry lookups (view, scraper.view)
ViewKinds == {"view", "scraped_view"}

TranslationKinds == {"none", "with word", "without word"}

Translations(kind) ==
    IF kind = "none" THEN << >>
    ELSE IF kind = "with word"
    THEN <<[word |-> "maple", definition |-> "a tree"]>>
    ELSE <<[definition |-> "a tree"]>>

Definition(tag, kind, n, m) ==
    [definition |-> "definition", translations |-> Translations(kind),
     example_info |-> ExampleInfo(n), multimedia_info |-> MultimediaInfo(tag, m)]

\* which pronunciation entries carry a sound url
UrlPatterns == {"none", "all", "odd"}

PronunciationInfo(k, pattern) ==
    [i \in 1..k |->
        IF pattern = "all" \/ (pattern = "odd" /\ i % 2 = 1)
        THEN [pronunciation |-> "pron " \o ToString(i),
              url |-> "https://sound/" \o ToString(i) \o ".mp3"]
        ELSE [pronunciation |-> "pron " \o ToString(i)]]

OriginInfos ==
    { << >>, <<[original_language |-> "hanja"]>>,
      <<[original_language |-> ""], [original_language |-> "hanja"]>> }

\* the (examples, multimedia) counts of a second definition
SecondCounts == { <<0, 0>>, <<MaxExamples, 2>>, <<2, MaxMedia>> }

DefinitionInfo(tag, kind, n, m, second, c) ==
    IF second
    THEN <<Definition(tag, kind, n, m), Definition(tag, kind, c[1], c[2])>>
    ELSE <<Definition(tag, kind, n, m)>>

ViewResponse(tag, kind, o, k, pat, d) ==
    [response_type |-> tag, class |-> "ViewResponse",
     data |-> [url |-> "https://krdict/view/1",
               results |-> <<[word_info |->
                   [word |-> "word", part_of_speech |-> "noun",
                    original_language_info |-> o,
                    pronunciation_info |-> PronunciationInfo(k, pat),
                    definition_info |-> d]]>>]]

ListTags == {"word", "dfn", "ip", "exam"}

ListResult(tag, origin, nt) ==
    LET dfn == [definition |-> "definition",
                translations |-> [k \in 1..nt |->
                    [word |-> "tr " \o ToString(k), definition |-> "a tree"]]]
        base == IF tag = "dfn"
                THEN [word |-> "word", definition_info |-> dfn]
                ELSE [word |-> "word", definitions |-> <<dfn, dfn>>]
    IN  IF origin = "absent" THEN base
        ELSE IF tag = "dfn"
        THEN [word |-> "word", definition_info |-> dfn, origin |-> origin]
        ELSE [word |-> "word", definitions |-> <<dfn, dfn>>, origin |-> origin]

ListResponse(tag, n, more, origin, nt) ==
    [response_type |-> tag,
     class |-> IF tag = "dfn" THEN "DefinitionResponse" ELSE "SearchResponse",
     data |-> [total_results |-> n + more,
               results |-> [i \in 1..n |-> ListResult(tag, origin, nt)]]]

\* lines 73-92: one call of _display_results
CallDisplayResults ==
    /\ fpc = "ready"
    /\ LET shown == DisplayResults(response)
       IN  /\ stdout' = shown.lines
           /\ renderer' = shown.renderer
           /\ fault' = shown.fault
    /\ fpc' = "printed"
    /\ UNCHANGED <<response, driverVars, localVars, netVars>>

InitFmt ==
    /\ pc = "idle" /\ frame = "__main__" /\ idx = 0
    /\ exc = NoExc /\ exitStatus = -1 /\ stderr = << >>
    /\ page = 0 /\ results = << >> /\ has_next = FALSE /\ total_results = 0
    /\ data = NoData /\ console = << >>
    /\ service = [total |-> 0, per_page |-> PerPage, mode |-> "honour"]
    /\ pending = {} /\ reqLog = << >> /\ pageLog = << >> /\ failed = NoFailure
    /\ \/ \E tag \in ViewKinds, kind \in TranslationKinds, o \in OriginInfos,
             k \in 0..MaxPron, pat \in UrlPatterns,
             n \in 0..MaxExamples, m \in 0..MaxMedia,
             second \in BOOLEAN :
            \E c \in IF second THEN SecondCounts ELSE {<<0, 0>>} :
              response = ViewResponse(tag, kind, o, k, pat,
                             DefinitionInfo(tag, kind, n, m, second, c))
       \/ \E tag \in ListTags, n \in 0..MaxResults, more \in {0, PerPage},
             origin \in {"absent", "", "hanja"}, nt \in 0..MaxResults :
              response = ListResponse(tag, n, more, origin, nt)
    /\ stdout = << >> /\ renderer = "none" /\ fault = "none"
    /\ fpc = "ready"

NextFmt == CallDisplayResults

SpecFmt == InitFmt /\ [][NextFmt]_vars

(***************************************************************************)
(* Properties of pagination() and the driver, checked under Spec.          *)
(***************************************************************************)
\* pagination() has returned (Finish moved the driver to the next example)
Returned == idx >= 1

Fetches == Len(reqLog)

\* the results of the responses received, in the order received
PagesReceived == [i \in 1..Len(pageLog) |-> pageLog[i].results]

\* every response so far is page i of a result set of T entries in pages of
\* P, with exactly min(P, remaining) entries
PagesExact(T, P) ==
    \A i \in 1..Len(pageLog) :
        /\ pageLog[i].total_results = T
        /\ pageLog[i].per_page = P
        /\ pageLog[i].page = i
        /\ Len(pageLog[i].results) = Min(P, Max(T - (i - 1) * P, 0))

FetchesNeeded(T, P) == Max(1, CeilDiv(T, P))

\* C1: pagination completeness.  For every total T and page size P, when
\* every page returns exactly min(P, remaining) entries, the loop never makes
\* more than ceil(T / P) fetches (1 when T = 0), stops asking once that many
\* pages have arrived, and has then made exactly that many fetches and
\* collected exactly T entries.
C1_PaginationComplete ==
    \A T \in {pageLog[i].total_results : i \in 1..Len(pageLog)},
       P \in {pageLog[i].per_page : i \in 1..Len(pageLog)} :
        PagesExact(T, P) /\ P > 0 =>
            /\ Fetches <= FetchesNeeded(T, P)
            /\ (Len(pageLog) = FetchesNeeded(T, P) /\ pc = "loop" => ~has_next)
            /\ (Returned => /\ Fetches = FetchesNeeded(T, P)
                            /\ Len(results) = T)

\* C1 witness: a total that is an exact multiple of the page size, above one
\* page, has been collected and the loop has returned.
C1_Witness ==
    /\ Returned
    /\ PagesExact(2 * PerPage, PerPage)
    /\ Fetches = 2
    /\ Len(results) = 2 * PerPage

\* every response so far holds exactly the entries of its page
PagesInOrder ==
    \A i \in 1..Len(pageLog) :
        pageLog[i].results = PageSlice(service.total, i, pageLog[i].per_page)

\* C2: order preservation.  When the loop has terminated, the collected
\* sequence is the concatenation of the pages' results in page order, and,
\* when each response holds its page of the result set, it is the sequence
\* 1..total an unpaged fetch returns.
C2_OrderPreserved ==
    Returned =>
        /\ results = Flatten(PagesReceived)
        /\ (PagesInOrder => results = Range(1, service.total))

\* C2 witness: three pages were collected, the last one partly filled.
C2_Witness ==
    /\ Returned
    /\ PagesInOrder
    /\ Len(pageLog) = 3
    /\ service.total = 2 * PerPage + 5
    /\ results = Range(1, 2 * PerPage + 5)

\* C3: sequential fetches.  The k-th fetch requests page k; at most one
\* fetch is outstanding; a page is requested only when every earlier fetch
\* has completed.
C3_Sequential ==
    /\ \A k \in 1..Len(reqLog) : reqLog[k].page = k
    /\ Cardinality(pending) <= 1
    /\ (pending # {} => pending = {Fetches} /\ Len(pageLog) = Fetches - 1)
    /\ (pending = {} /\ failed.fetch = 0 => Len(pageLog) = Fetches)

\* C3 witness: the third fetch is outstanding.
C3_Witness ==
    /\ pc = "await"
    /\ Fetches = 3
    /\ pending = {3}

\* C4: no partial page is committed.  In every state, and so while a fetch
\* is pending and after one failed or was cancelled, the collected sequence
\* is the concatenation of the complete results of the fetches that
\* succeeded, which are all the fetches but the pending or failed one.
C4_NoPartialPage ==
    /\ results = Flatten(PagesReceived)
    /\ (pc = "await" \/ failed.fetch # 0 => Len(pageLog) = Fetches - 1)
    /\ (failed.fetch # 0 => failed.fetch = Fetches)

\* C4 witness: the second fetch was cancelled after a full first page.
C4_Witness ==
    /\ failed.fetch = 2
    /\ failed.exc.type = "CancelledError"
    /\ Len(results) = PerPage
    /\ Len(SearchResponse(service, reqLog[2]).results) > 0

\* C5: a domain error raised by a fetch is not caught by the loop.  Once a
\* fetch has raised, the same exception stays in flight until the process
\* exits, control never returns to the loop or the driver, that page was
\* requested once only, and no request follows it.
C5_ErrorPropagates ==
    failed.exc.type = "KRDictException" =>
        /\ exc = failed.exc
        /\ pc \in {"unwinding", "exited"}
        /\ Fetches = failed.fetch
        /\ Cardinality({k \in 1..Len(reqLog) :
                          reqLog[k].page = reqLog[failed.fetch].page}) = 1
        /\ pending = {}

\* C5 witness: the error of the second fetch has reached __main__.
C5_Witness ==
    /\ failed.exc.type = "KRDictException"
    /\ failed.fetch = 2
    /\ frame = "__main__"
    /\ pc = "exited"

\* C6: when an example raises a KRDictException that reaches the driver,
\* the process exits with a non-zero status and what it prints is the
\* string form of that exception.
C6_ExitPrintsDescription ==
    pc = "exited" /\ exc.type = "KRDictException" =>
        /\ exitStatus # 0
        /\ stderr = <<exc.msg>>

\* the continuation test as C10 states it: requested page, requested size
RequestedPredicate(i) ==
    reqLog[i].page * reqLog[i].per_page < pageLog[i].total_results

\* the continuation test on the fields of the response
AnsweredPredicate(i) ==
    pageLog[i].page * pageLog[i].per_page < pageLog[i].total_results

\* C10 as stated: after each fetch has_next is true exactly when
\* (page requested) * (page size requested) < total_results of the response.
C10_RequestedPredicate ==
    \A i \in 1..Len(pageLog) : console[i].next = RequestedPredicate(i)

\* C10 as amended: after each fetch has_next is true exactly when
\* (page of the response) * (per_page of the response) < total_results of
\* the response, and the loop ends at the first fetch for which it is false.
C10_AnsweredPredicate ==
    /\ \A i \in 1..Len(pageLog) : console[i].next = AnsweredPredicate(i)
    /\ \A i \in 1..(Len(pageLog) - 1) : console[i].next
    /\ (Len(pageLog) >= 1 /\ pc = "loop" => has_next = console[Len(pageLog)].next)
    /\ (Len(pageLog) >= 1 /\ ~console[Len(pageLog)].next => Fetches = Len(pageLog))
    /\ (Returned => ~console[Len(pageLog)].next)

\* C10 witness: the service answered with a page size other than the one
\* requested, and the loop went on where the requested size would end it.
C10_Witness ==
    /\ Len(pageLog) >= 2
    /\ pageLog[1].per_page # reqLog[1].per_page
    /\ ~RequestedPredicate(1)
    /\ Returned


(***************************************************************************)
(* Properties of the formatter, checked under SpecFmt.                     *)
(***************************************************************************)
IsView == response.response_type \in {"view", "scraped_view"}

WordInfo == response.data.results[1].word_info

\* the number of positions of s that hold t
Count(s, t) == Cardinality({i \in 1..Len(s) : s[i] = t})

\* the printed lines that number a definition, and the lines under the j-th
IndexPositions == {i \in 3..Len(stdout) : Len(stdout[i]) >= 2 /\ stdout[i][2] = ". "}

IndexPosition(j) ==
    CHOOSE p \in IndexPositions :
        Cardinality({q \in IndexPositions : q <= p}) = j

Block(j) ==
    LET first == IndexPosition(j) + 1
        last  == IF j < Cardinality(IndexPositions)
                 THEN IndexPosition(j + 1) - 1 ELSE Len(stdout)
    IN  SubSeq(stdout, first, last)

IsExampleLine(line) == Len(line) = 2 /\ line[1] = "   * "
IsMediaLine(line)   == Len(line) >= 4 /\ line[1] = "   > "

\* C7: truncation bound.  Under each definition with N examples and M
\* multimedia references the detail renderer prints the first min(N, 5)
\* examples in order, one example marker line exactly when N > 5, then
\* min(M, 5) multimedia lines, one multimedia marker line exactly when
\* M > 5, and nothing else.
C7_TruncationBound ==
    fpc = "printed" /\ IsView =>
        /\ Cardinality(IndexPositions) = Len(WordInfo.definition_info)
        /\ \A j \in 1..Len(WordInfo.definition_info) :
            LET dfn  == WordInfo.definition_info[j]
                N    == Len(dfn.example_info)
                M    == Len(dfn.multimedia_info)
                shownN == Min(N, 5)
                markN  == IF N > 5 THEN 1 ELSE 0
                shownM == Min(M, 5)
                markM  == IF M > 5 THEN 1 ELSE 0
                block  == Block(j)
            IN  /\ Len(block) = shownN + markN + shownM + markM
                /\ Len(SelectSeq(block, IsExampleLine)) = shownN
                /\ \A i \in 1..shownN :
                       block[i] = <<"   * ", dfn.example_info[i].example>>
                /\ Count(block, ExampleMarker) = markN
                /\ (N > 5 => block[shownN + 1] = ExampleMarker)
                /\ Len(SelectSeq(block, IsMediaLine)) = shownM
                /\ \A i \in 1..shownM :
                       /\ IsMediaLine(block[shownN + markN + i])
                       /\ block[shownN + markN + i][Len(block[shownN + markN + i]) - 1]
                              = dfn.multimedia_info[i].type
                /\ Count(block, MediaMarker) = markM
                /\ (M > 5 => block[Len(block)] = MediaMarker)

\* C7 witness: a definition with 7 examples and 2 multimedia references,
\* followed by one with more than 5 references.
C7_Witness ==
    /\ fpc = "printed" /\ IsView
    /\ Len(WordInfo.definition_info) = 2
    /\ Len(WordInfo.definition_info[1].example_info) = 7
    /\ Len(WordInfo.definition_info[1].multimedia_info) = 2
    /\ Len(WordInfo.definition_info[2].multimedia_info) > 5
    /\ Count(stdout, ExampleMarker) = 1
    /\ Count(stdout, MediaMarker) = 1

StartsWithTotal(line) == Len(line) >= 1 /\ line[1] = "Total Results: "

\* C8: variant branching.  The detail renderer is used, and no "Total
\* Results:" line is printed, exactly when the response is tagged view or
\* scraped_view; for every other tag the list renderer is used and the first
\* line printed is the "Total Results:" line.
C8_VariantBranching ==
    fpc = "printed" =>
        /\ (renderer = "detail") = IsView
        /\ (renderer = "list") = ~IsView
        /\ (IsView => /\ fault = "none"
                      /\ \A i \in 1..Len(stdout) : ~StartsWithTotal(stdout[i])
                      /\ stdout[1][1] = WordInfo.word
                      /\ stdout[2] = <<response.data.url>>)
        /\ (~IsView => /\ fault = "none"
                       /\ StartsWithTotal(stdout[1])
                       /\ stdout[1][2] = ToString(response.data.total_results)
                       /\ \A i \in 2..Len(stdout) : ~StartsWithTotal(stdout[i]))

\* C8 witness: a scraped view has been rendered.
C8_Witness ==
    /\ fpc = "printed"
    /\ response.response_type = "scraped_view"
    /\ renderer = "detail"
    /\ Len(stdout) >= 3

\* the header line, and its bracketed pronunciation segment: what stands
\* between the " [" piece and the closing "]"
Header == stdout[1]

BracketAt == CHOOSE b \in 1..Len(Header) : Header[b] = " ["

Segment == SubSeq(Header, BracketAt + 1, Len(Header) - 1)

\* the pronunciations of the entries, a slash between each two
RECURSIVE Slashed(_)
Slashed(infos) ==
    IF infos = << >> THEN << >>
    ELSE IF Len(infos) = 1 THEN <<Head(infos).pronunciation>>
    ELSE <<Head(infos).pronunciation, "/">> \o Slashed(Tail(infos))

IsTextOrSlash(t) ==
    t = "/" \/ \E i \in 1..Len(WordInfo.pronunciation_info) :
                  t = WordInfo.pronunciation_info[i].pronunciation

\* C9: pronunciation joining.  With k pronunciation entries the header line
\* has no bracketed segment when k = 0; otherwise it ends with one bracketed
\* segment that holds exactly k - 1 slashes, one between each two consecutive
\* entries, none first and none last.
C9_PronunciationJoining ==
    fpc = "printed" /\ IsView =>
        LET k == Len(WordInfo.pronunciation_info)
        IN  IF k = 0
            THEN Count(Header, " [") = 0 /\ Count(Header, "]") = 0
                 /\ Count(Header, "/") = 0
            ELSE /\ Count(Header, " [") = 1
                 /\ Count(Header, "]") = 1
                 /\ Header[Len(Header)] = "]"
                 /\ Count(Segment, "/") = k - 1
                 /\ Count(Header, "/") = k - 1
                 /\ Segment[1] # "/"
                 /\ Segment[Len(Segment)] # "/"
                 /\ SelectSeq(Segment, IsTextOrSlash)
                        = Slashed(WordInfo.pronunciation_info)

\* C9 witness: three entries, some with a sound url, joined by two slashes.
C9_Witness ==
    /\ fpc = "printed" /\ IsView
    /\ Len(WordInfo.pronunciation_info) = 3
    /\ Has(WordInfo.pronunciation_info[1], "url")
    /\ ~Has(WordInfo.pronunciation_info[2], "url")
    /\ Count(Header, "/") = 2

====
